---------------------------- MODULE Spec2Model ----------------------------
(***************************************************************************)
(* State-machine model of epos_hardware::Epos (src/util/epos.cpp): the     *)
(* constructor, the bring-up sequence Epos::init, the controller switch    *)
(* Epos::doSwitch, the cyclic Epos::read / Epos::write and the two status  *)
(* builders Epos::buildMotorStatus / Epos::buildMotorOutputStatus.         *)
(*                                                                         *)
(* Conventions                                                             *)
(*  - A C++ double is a sequence: <<>> is NaN, <<v>> is the finite value   *)
(*    v/1000 (fixed point, thousandths), <<s, 0>> is s * infinity.         *)
(*  - M_PI is the rational PiNum / PiDen.                                  *)
(*  - The device library (the VCS_ calls) and the parameter server are    *)
(*    the environment: a device call succeeds or fails nondeterministically, *)
(*    the parameter server content is the variable params.                 *)
(*  - trace holds the device calls of the current (or last) handler        *)
(*    invocation, in the order they were issued.                           *)
(***************************************************************************)
EXTENDS Integers, Sequences, FiniteSets, TLC

VARIABLES
    params,                \* content of the parameter server (config_nh_)
    device,                \* the drive: what its status word reads
    valid_, operation_mode_map_, rw_ros_units_, power_supply_name_,
    has_init_, node_handle_,
    position_, velocity_, effort_, current_, statusword_, power_supply_state_,
    position_cmd_, velocity_cmd_, torque_cmd_,
    operation_mode_,
    torque_constant_, nominal_current_, max_current_, encoder_resolution_,
    max_profile_velocity_, halt_velocity_,
    pc,                    \* position inside Epos::init ("idle" outside)
    num_errors,            \* local of Epos::init
    idx,                   \* loop index of the current init step
    trace,                 \* device calls of the current / last handler
    op,                    \* the current / last handler and its input
    ret,                   \* return value of the last finished init
    init_calls,            \* number of Epos::init invocations so far
    crashed,               \* the process died dereferencing a null handle
    stat                   \* the report of the status builder that ran last
                           \* (empty once another handler has run)

ctorVars   == <<params, valid_, operation_mode_map_, rw_ros_units_, power_supply_name_>>
sensedVars == <<position_, velocity_, effort_, current_, statusword_, power_supply_state_>>
cmdVars    == <<position_cmd_, velocity_cmd_, torque_cmd_>>
cfgVars    == <<torque_constant_, nominal_current_, max_current_, encoder_resolution_,
                max_profile_velocity_, halt_velocity_>>
vars == <<params, device, valid_, operation_mode_map_, rw_ros_units_, power_supply_name_,
          has_init_, node_handle_,
          position_, velocity_, effort_, current_, statusword_, power_supply_state_,
          position_cmd_, velocity_cmd_, torque_cmd_, operation_mode_,
          torque_constant_, nominal_current_, max_current_, encoder_resolution_,
          max_profile_velocity_, halt_velocity_,
          pc, num_errors, idx, trace, op, ret, init_calls, crashed, stat>>

---------------------------------------------------------------------------
(* Bounds of the model *)

MaxFaults    == 2   \* largest fault count the device reports
MaxSetObject == 2   \* SetObject calls recorded per raw write before the trace saturates
MaxStart     == 2   \* longest start list of a controller switch
MaxInitCalls == 2   \* invocations of Epos::init per driver object

---------------------------------------------------------------------------
(* Numbers *)

Milli == 1000
PiNum == 355
PiDen == 113

NaN          == <<>>
Num(v)       == <<v>>
Inf(s)       == <<s, 0>>
isnan(x)     == Len(x) = 0
IsFinite(x)  == Len(x) = 1
Val(x)       == x[1]

Abs(a)  == IF a < 0 THEN 0 - a ELSE a
Sign(a) == IF a < 0 THEN 0 - 1 ELSE IF a > 0 THEN 1 ELSE 0
\* integer quotient rounded toward zero, as the C++ (int) cast does
TruncDiv(a, b) == Sign(a) * Sign(b) * (Abs(a) \div Abs(b))

PROFILE_POSITION_MODE == 1
PROFILE_VELOCITY_MODE == 3
CURRENT_MODE          == 0 - 3
OperationModes == {PROFILE_POSITION_MODE, PROFILE_VELOCITY_MODE, CURRENT_MODE}

\* value of a field the constructor leaves unassigned and nothing reads before init
Indeterminate == "indeterminate"

---------------------------------------------------------------------------
(* The parameter server *)

Controllers == {"position_controller", "effort_controller", "other_controller"}

ModeMapFull == [n \in {"", "position_controller", "effort_controller"} |->
                  IF n = "" THEN "profile_velocity"
                  ELSE IF n = "position_controller" THEN "profile_position"
                  ELSE "current"]
ModeMapNoInitial == [n \in {"position_controller"} |-> "profile_position"]
ModeMapEmpty == [n \in {} |-> ""]
ModeMapBad == [n \in {"position_controller", "effort_controller"} |->
                  IF n = "position_controller" THEN "profile_position" ELSE "torque"]

FaultReactionStrings == {"signal_only", "disable_drive", "slow_down_ramp",
                         "slow_down_quickstop", "coast"}

\* the parameter groups read through ParameterSetLoader, with their keys in
\* the order of the .param() calls
GroupKeys ==
    [dc_motor |-> <<"nominal_current", "max_output_current", "thermal_time_constant">>,
     ec_motor |-> <<"nominal_current", "max_output_current", "thermal_time_constant",
                    "number_of_pole_pairs">>,
     incremental_encoder |-> <<"resolution", "inverted_polarity">>,
     hall_sensor |-> <<"inverted_polarity">>,
     ssi_absolute_encoder |-> <<"data_rate", "number_of_multiturn_bits",
                                "number_of_singleturn_bits", "inverted_polarity">>,
     position_regulator_gain |-> <<"p", "i", "d">>,
     position_regulator_feed_forward |-> <<"velocity", "acceleration">>,
     velocity_regulator_gain |-> <<"p", "i">>,
     velocity_regulator_feed_forward |-> <<"velocity", "acceleration">>,
     current_regulator_gain |-> <<"p", "i">>,
     position_profile |-> <<"velocity", "acceleration", "deceleration">>,
     position_profile_window |-> <<"window", "time">>,
     velocity_profile |-> <<"acceleration", "deceleration">>,
     velocity_profile_window |-> <<"window", "time">>]
GroupNames == DOMAIN GroupKeys
Range(s) == {s[i] : i \in DOMAIN s}
AllKeys(g) == Range(GroupKeys[g])

\* a complete configuration with one incremental encoder and no option set
BaseGroups == [g \in GroupNames |-> IF g = "incremental_encoder" THEN AllKeys(g) ELSE {}]
BaseParams ==
    [actuator_name |-> TRUE, serial_number |-> TRUE,
     operation_mode_map |-> ModeMapFull,
     rw_ros_units |-> FALSE, power_supply_name |-> "",
     fault_reaction_option |-> {}, torque_constant |-> {},
     motor_type |-> TRUE, max_speed |-> FALSE, sensor_type |-> TRUE,
     groups |-> BaseGroups,
     resolution |-> 500, inc_inverted_polarity |-> FALSE,
     number_of_singleturn_bits |-> 4, ssi_inverted_polarity |-> FALSE,
     nominal_current |-> 1000, max_output_current |-> 2000,
     max_following_error |-> FALSE, max_profile_velocity |-> {},
     max_acceleration |-> FALSE,
     clear_faults |-> FALSE, halt_velocity |-> FALSE]

\* the configurations explored: the base one and every change of one entry
Configs ==
    {BaseParams}
    \cup {[BaseParams EXCEPT !.actuator_name = FALSE],
          [BaseParams EXCEPT !.serial_number = FALSE],
          [BaseParams EXCEPT !.rw_ros_units = TRUE],
          [BaseParams EXCEPT !.power_supply_name = "battery"],
          [BaseParams EXCEPT !.motor_type = FALSE],
          [BaseParams EXCEPT !.max_speed = TRUE],
          [BaseParams EXCEPT !.sensor_type = FALSE],
          [BaseParams EXCEPT !.resolution = 0],
          [BaseParams EXCEPT !.inc_inverted_polarity = TRUE],
          [BaseParams EXCEPT !.max_following_error = TRUE],
          [BaseParams EXCEPT !.max_acceleration = TRUE],
          [BaseParams EXCEPT !.clear_faults = TRUE],
          [BaseParams EXCEPT !.halt_velocity = TRUE]}
    \cup {[BaseParams EXCEPT !.operation_mode_map = m] :
             m \in {ModeMapNoInitial, ModeMapEmpty, ModeMapBad}}
    \cup {[BaseParams EXCEPT !.fault_reaction_option = {s}] : s \in FaultReactionStrings}
    \cup {[BaseParams EXCEPT !.torque_constant = {t}] : t \in {2000, 0}}
    \cup {[BaseParams EXCEPT !.max_profile_velocity = {m}] : m \in {0, 10}}
    \cup UNION {{[BaseParams EXCEPT !.groups[g] = k] : k \in SUBSET AllKeys(g)} :
                   g \in GroupNames}
    \cup {[BaseParams EXCEPT !.groups["ssi_absolute_encoder"] =
                                  AllKeys("ssi_absolute_encoder"),
                             !.groups["incremental_encoder"] = {},
                             !.ssi_inverted_polarity = b] : b \in BOOLEAN}

---------------------------------------------------------------------------
(* Epos::Epos *)

ModeOfString(s) == IF s = "profile_position" THEN PROFILE_POSITION_MODE
                   ELSE IF s = "profile_velocity" THEN PROFILE_VELOCITY_MODE
                   ELSE CURRENT_MODE
IsModeString(s) == s \in {"profile_position", "profile_velocity", "current"}

\* operation_mode_map_ after the constructor's loop: the valid entries
CtorModeMap(p) ==
    LET m == p.operation_mode_map
        ok == {n \in DOMAIN m : IsModeString(m[n])}
    IN [n \in ok |-> ModeOfString(m[n])]

\* valid_ after the constructor
CtorValid(p) ==
    /\ p.actuator_name
    /\ p.serial_number
    /\ \A n \in DOMAIN p.operation_mode_map : IsModeString(p.operation_mode_map[n])

\* no status report at hand
NoReport == [summary |-> <<>>, keys |-> {}]

\* values an unassigned command register or mode may hold
UninitCmds  == {NaN, Num(4000)}
UninitModes == OperationModes \cup {0}

\* the drives explored: one that is enabled without warning or fault, and for
\* the status builders also one with the warning and current-limit bits set
\* and one with the fault and warning bits set and quickstop active
NominalDevices == {[statusword |-> 567]}
StatusDevices  == {[statusword |-> w] : w \in {567, 2743, 671}}

\* the state after construction, for a parameter server content drawn from C
\* and a drive drawn from D
Constructed(C, D) ==
    /\ params \in C
    /\ device \in D
    /\ valid_ = CtorValid(params)
    /\ operation_mode_map_ = CtorModeMap(params)
    /\ rw_ros_units_ = params.rw_ros_units
    /\ power_supply_name_ = params.power_supply_name
    /\ has_init_ = FALSE
    /\ node_handle_ = FALSE
    /\ position_ = Num(0) /\ velocity_ = Num(0) /\ effort_ = Num(0)
    /\ current_ = Num(0) /\ statusword_ = 0
    /\ power_supply_state_ = IF params.power_supply_name # ""
                             THEN [voltage |-> Num(0), present |-> FALSE]
                             ELSE [voltage |-> NaN, present |-> FALSE]
    /\ position_cmd_ = Num(0) /\ velocity_cmd_ = Num(0)
    /\ torque_cmd_ \in UninitCmds
    /\ operation_mode_ \in UninitModes
    /\ torque_constant_ = Indeterminate /\ nominal_current_ = Indeterminate
    /\ max_current_ = Indeterminate /\ encoder_resolution_ = Indeterminate
    /\ max_profile_velocity_ = Indeterminate /\ halt_velocity_ = Indeterminate
    /\ pc = "idle" /\ num_errors = 0 /\ idx = 0
    /\ trace = <<>> /\ op = [name |-> "ctor", start |-> <<>>]
    /\ ret = "none" /\ init_calls = 0 /\ crashed = FALSE
    /\ stat = NoReport

\* the configurations explored together with controller switches: the base
\* one, the mode maps and the two raw object writes
SwitchConfigs ==
    {BaseParams,
     [BaseParams EXCEPT !.max_speed = TRUE],
     [BaseParams EXCEPT !.fault_reaction_option = {"disable_drive"}],
     [BaseParams EXCEPT !.clear_faults = TRUE]}
    \cup {[BaseParams EXCEPT !.operation_mode_map = m] :
             m \in {ModeMapNoInitial, ModeMapEmpty, ModeMapBad}}

\* the configurations explored together with the command registers: the
\* unit mode, the velocity limit and halt_velocity, and the two raw object
\* writes
CyclicConfigs ==
    {[BaseParams EXCEPT !.rw_ros_units = u, !.max_profile_velocity = m] :
        u \in BOOLEAN, m \in {{}, {10}}}
    \cup {[BaseParams EXCEPT !.halt_velocity = h, !.max_profile_velocity = {0}] :
             h \in BOOLEAN}
    \cup {[BaseParams EXCEPT !.halt_velocity = TRUE]}
    \cup {[BaseParams EXCEPT !.max_speed = TRUE],
          [BaseParams EXCEPT !.fault_reaction_option = {"disable_drive"}],
          [BaseParams EXCEPT !.clear_faults = TRUE]}

\* the configurations explored together with the status builders: with and
\* without a nominal current, and the two raw object writes
StatusConfigs ==
    {BaseParams,
     [BaseParams EXCEPT !.groups["dc_motor"] = AllKeys("dc_motor")],
     [BaseParams EXCEPT !.max_speed = TRUE],
     [BaseParams EXCEPT !.fault_reaction_option = {"disable_drive"}]}

Init       == Constructed(SwitchConfigs, NominalDevices)
InitCyclic == Constructed(CyclicConfigs, NominalDevices)
InitStatus == Constructed(StatusConfigs, StatusDevices)
InitConfig == Constructed(Configs, NominalDevices)

---------------------------------------------------------------------------
(* Device calls and the VCS macro *)

\* one entry of trace: the call, its argument and the result the caller tested
\* (TRUE for a call whose result the caller discards)
Call(fn, arg, ok) == [fn |-> fn, arg |-> arg, ok |-> ok]

\* return false from init
Abort == /\ pc' = "idle" /\ ret' = "false" /\ idx' = 0 /\ num_errors' = 0
\* fall through to the step `next` of init, with loop index i
Goto(next, i) == /\ pc' = next /\ ret' = ret /\ idx' = i /\ num_errors' = num_errors

\* VCS without the early return: the sequence goes on after a failed call
VCS_continue(fn, arg, next, i) ==
    \E ok \in BOOLEAN :
        /\ trace' = Append(trace, Call(fn, arg, ok))
        /\ Goto(next, i)

\* the VCS macro: issue the call, return false when it fails
VCS(fn, arg, next, i) ==
    \E ok \in BOOLEAN :
        /\ trace' = Append(trace, Call(fn, arg, ok))
        /\ IF ok THEN Goto(next, i) ELSE Abort
\* a step that issues no call
Skip(next, i) == trace' = trace /\ Goto(next, i)
\* a validation failure: return false without a call
Reject == trace' = trace /\ Abort

\* what no step of init touches
InitFrame == UNCHANGED <<stat, device, ctorVars, sensedVars, cmdVars, operation_mode_, op,
                         init_calls, crashed>>

---------------------------------------------------------------------------
(* ParameterSetLoader *)

\* the loader after its .param() calls on group g
ParameterSetLoader(p, g) ==
    [found_     |-> SelectSeq(GroupKeys[g], LAMBDA k : k \in p.groups[g]),
     not_found_ |-> SelectSeq(GroupKeys[g], LAMBDA k : k \notin p.groups[g])]

\* all_or_none that takes a partly present group for a present one
all_or_none_partial(l) ==
    IF Len(l.found_) > 0 THEN [ret |-> TRUE, found_all |-> TRUE]
    ELSE [ret |-> TRUE, found_all |-> FALSE]

\* ret is the returned bool, found_all the reference argument
all_or_none(l) ==
    IF Len(l.not_found_) = 0 THEN [ret |-> TRUE, found_all |-> TRUE]
    ELSE IF Len(l.found_) = 0 THEN [ret |-> TRUE, found_all |-> FALSE]
    ELSE [ret |-> FALSE, found_all |-> FALSE]

\* a block "load group g all-or-none, then push it with fn"
GroupStep(g, fn, arg, next, i) ==
    LET r == all_or_none(ParameterSetLoader(params, g))
    IN IF ~r.ret THEN Reject
       ELSE IF r.found_all THEN VCS(fn, arg, next, i)
       ELSE Skip(next, i)

---------------------------------------------------------------------------
(* Epos::init, one action per block of the function *)

\* lines 186-200: the valid_ test and CreateNodeHandle
init_begin ==
    /\ pc = "idle" /\ ~crashed /\ init_calls < MaxInitCalls
    /\ init_calls' = init_calls + 1
    /\ op' = [name |-> "init", start |-> <<>>]
    /\ IF ~valid_
       THEN /\ trace' = <<>> /\ Abort
            /\ UNCHANGED node_handle_
       ELSE \E ok \in BOOLEAN :
            /\ trace' = <<Call("CreateNodeHandle", 0, ok)>>
            /\ node_handle_' = ok
            /\ IF ok THEN /\ pc' = "protocol" /\ ret' = "running"
                          /\ idx' = 0 /\ num_errors' = 0
               ELSE Abort
    /\ stat' = NoReport
    /\ UNCHANGED <<device, ctorVars, sensedVars, cmdVars, operation_mode_, cfgVars,
                   has_init_, crashed>>

\* lines 203-206
init_protocol ==
    /\ pc = "protocol"
    /\ VCS("SetProtocolStackSettings", 0, "disable", 0)
    /\ InitFrame /\ UNCHANGED <<cfgVars, has_init_, node_handle_>>

\* lines 208-211
init_disable ==
    /\ pc = "disable"
    /\ VCS("SetDisableState", 0, "initial_mode", 0)
    /\ InitFrame /\ UNCHANGED <<cfgVars, has_init_, node_handle_>>

\* lines 213-221
init_initial_mode ==
    /\ pc = "initial_mode"
    /\ IF "" \in DOMAIN operation_mode_map_
       THEN VCS("SetOperationMode", operation_mode_map_[""], "fault_reaction", 0)
       ELSE Skip("fault_reaction", 0)
    /\ InitFrame /\ UNCHANGED <<cfgVars, has_init_, node_handle_>>

FaultReactionData(str) ==
    IF str = "signal_only" THEN 0 - 1
    ELSE IF str = "disable_drive" THEN 0
    ELSE IF str = "slow_down_ramp" THEN 1
    ELSE 2
IsFaultReaction(str) ==
    str \in {"signal_only", "disable_drive", "slow_down_ramp", "slow_down_quickstop"}

\* lines 230-243: the string comparison; the write itself is VCS_SET_OBJECT
init_fault_reaction ==
    /\ pc = "fault_reaction"
    /\ IF params.fault_reaction_option = {} THEN Skip("motor_type", 0)
       ELSE \E str \in params.fault_reaction_option :
               IF IsFaultReaction(str) THEN Skip("set_fault_reaction", 0) ELSE Reject
    /\ InitFrame /\ UNCHANGED <<cfgVars, has_init_, node_handle_>>

\* number of SetObject calls on `index` in the trace
SetObjectCount(t, index) ==
    Cardinality({i \in DOMAIN t : t[i].fn = "SetObject" /\ t[i].arg[1] = index})

\* lines 161-169: do { if (!VCS_SetObject(...)) return false; } while (true).
\* A successful write is followed by the next write; once MaxSetObject writes
\* are in the trace a further successful write leaves the state as it is.
VCS_SET_OBJECT(index, data) ==
    \E ok \in BOOLEAN :
        IF ok
        THEN /\ trace' = IF SetObjectCount(trace, index) < MaxSetObject
                         THEN Append(trace, Call("SetObject", <<index, data>>, TRUE))
                         ELSE trace
             /\ Goto(pc, idx)
        ELSE /\ trace' = Append(trace, Call("SetObject", <<index, data>>, FALSE))
             /\ Abort

\* lines 224-228, 232-238: SET_FAULT_REACTION_OPTION(val)
init_set_fault_reaction ==
    /\ pc = "set_fault_reaction"
    /\ \E str \in params.fault_reaction_option :
          VCS_SET_OBJECT(24670, FaultReactionData(str))
    /\ InitFrame /\ UNCHANGED <<cfgVars, has_init_, node_handle_>>

\* lines 245-257: torque constant, motor type
init_motor_type ==
    /\ pc = "motor_type"
    /\ torque_constant_' = IF params.torque_constant = {} THEN Num(Milli)
                           ELSE Num(CHOOSE t \in params.torque_constant : TRUE)
    /\ nominal_current_' = Num(0)
    /\ max_current_' = Num(0)
    /\ IF params.motor_type THEN VCS("SetMotorType", 0, "dc_motor", 0) ELSE Reject
    /\ InitFrame
    /\ UNCHANGED <<encoder_resolution_, max_profile_velocity_, halt_velocity_,
                   has_init_, node_handle_>>

\* lines 259-279 and 281-304
MotorGroup(g, fn, next) ==
    LET r == all_or_none(ParameterSetLoader(params, g))
    IN /\ GroupStep(g, fn, params.nominal_current, next, 0)
       /\ IF r.ret /\ r.found_all
          THEN /\ nominal_current_' = Num(params.nominal_current)
               /\ max_current_' = Num(params.max_output_current)
          ELSE UNCHANGED <<nominal_current_, max_current_>>
       /\ InitFrame
       /\ UNCHANGED <<torque_constant_, encoder_resolution_, max_profile_velocity_,
                      halt_velocity_, has_init_, node_handle_>>

init_dc_motor == pc = "dc_motor" /\ MotorGroup("dc_motor", "SetDcMotorParameter", "ec_motor")
init_ec_motor == pc = "ec_motor" /\ MotorGroup("ec_motor", "SetEcMotorParameter", "max_speed")

\* lines 306-310: the getParam; the write itself is VCS_SET_OBJECT
init_max_speed ==
    /\ pc = "max_speed"
    /\ IF params.max_speed THEN Skip("set_max_speed", 0) ELSE Skip("sensor_type", 0)
    /\ InitFrame /\ UNCHANGED <<cfgVars, has_init_, node_handle_>>

init_set_max_speed ==
    /\ pc = "set_max_speed"
    /\ VCS_SET_OBJECT(24704, 0)
    /\ InitFrame /\ UNCHANGED <<cfgVars, has_init_, node_handle_>>

\* lines 313-318
init_sensor_type ==
    /\ pc = "sensor_type"
    /\ encoder_resolution_' = 0
    /\ IF params.sensor_type THEN VCS("SetSensorType", 0, "incremental_encoder", 0)
       ELSE Reject
    /\ InitFrame
    /\ UNCHANGED <<torque_constant_, nominal_current_, max_current_,
                   max_profile_velocity_, halt_velocity_, has_init_, node_handle_>>

\* lines 320-338
init_incremental_encoder ==
    /\ pc = "incremental_encoder"
    /\ GroupStep("incremental_encoder", "SetIncEncoderParameter", params.resolution,
                 "hall_sensor", 0)
    /\ encoder_resolution_' =
          IF pc' = "hall_sensor" /\ trace' # trace
          THEN IF params.inc_inverted_polarity THEN 0 - params.resolution
               ELSE params.resolution
          ELSE encoder_resolution_
    /\ InitFrame
    /\ UNCHANGED <<torque_constant_, nominal_current_, max_current_,
                   max_profile_velocity_, halt_velocity_, has_init_, node_handle_>>

\* lines 340-351
init_hall_sensor ==
    /\ pc = "hall_sensor"
    /\ GroupStep("hall_sensor", "SetHallSensorParameter", 0, "ssi_absolute_encoder", 0)
    /\ InitFrame /\ UNCHANGED <<cfgVars, has_init_, node_handle_>>

Pow2(n) == 2 ^ n

\* lines 353-382: the SSI block and the test of encoder_resolution_ after it
init_ssi_absolute_encoder ==
    /\ pc = "ssi_absolute_encoder"
    /\ LET r == all_or_none(ParameterSetLoader(params, "ssi_absolute_encoder"))
           res == IF params.ssi_inverted_polarity
                  THEN 0 - Pow2(params.number_of_singleturn_bits)
                  ELSE Pow2(params.number_of_singleturn_bits)
       IN IF ~r.ret THEN Reject /\ UNCHANGED encoder_resolution_
          ELSE IF r.found_all
          THEN \E ok \in BOOLEAN :
                  /\ trace' = Append(trace, Call("SetSsiAbsEncoderParameter", 0, ok))
                  /\ IF ok
                     THEN /\ encoder_resolution_' = res
                          /\ IF res = 0 THEN Abort ELSE Goto("safety", 1)
                     ELSE Abort /\ UNCHANGED encoder_resolution_
          ELSE /\ trace' = trace
               /\ UNCHANGED encoder_resolution_
               /\ IF encoder_resolution_ = 0 THEN Abort ELSE Goto("safety", 1)
    /\ InitFrame
    /\ UNCHANGED <<torque_constant_, nominal_current_, max_current_,
                   max_profile_velocity_, halt_velocity_, has_init_, node_handle_>>

\* lines 388-390: the three VCS_FROM_SINGLE_PARAM_OPTIONAL, in order
SafetyParams ==
    <<[name |-> "max_following_error",  fn |-> "SetMaxFollowingError"],
      [name |-> "max_profile_velocity", fn |-> "SetMaxProfileVelocity"],
      [name |-> "max_acceleration",     fn |-> "SetMaxAcceleration"]>>

SafetyParamSet(p, i) ==
    IF i = 1 THEN p.max_following_error
    ELSE IF i = 2 THEN p.max_profile_velocity # {}
    ELSE p.max_acceleration

\* lines 384-395
init_safety ==
    /\ pc = "safety"
    /\ LET last == idx = Len(SafetyParams)
           next == IF last THEN "regulators" ELSE "safety"
           i    == IF last THEN 1 ELSE idx + 1
       IN /\ IF SafetyParamSet(params, idx)
             THEN VCS(SafetyParams[idx].fn, 0, next, i)
             ELSE Skip(next, i)
          /\ max_profile_velocity_' =
                IF pc' = "regulators"
                THEN IF params.max_profile_velocity # {}
                     THEN CHOOSE m \in params.max_profile_velocity : TRUE
                     ELSE 0 - 1
                ELSE max_profile_velocity_
    /\ InitFrame
    /\ UNCHANGED <<torque_constant_, nominal_current_, max_current_,
                   encoder_resolution_, halt_velocity_, has_init_, node_handle_>>

\* lines 397-540: the nine regulator and profile blocks, in order
RegulatorGroups ==
    <<[g |-> "position_regulator_gain",         fn |-> "SetPositionRegulatorGain"],
      [g |-> "position_regulator_feed_forward", fn |-> "SetPositionRegulatorFeedForward"],
      [g |-> "velocity_regulator_gain",         fn |-> "SetVelocityRegulatorGain"],
      [g |-> "velocity_regulator_feed_forward", fn |-> "SetVelocityRegulatorFeedForward"],
      [g |-> "current_regulator_gain",          fn |-> "SetCurrentRegulatorGain"],
      [g |-> "position_profile",                fn |-> "SetPositionProfile"],
      [g |-> "position_profile_window",         fn |-> "EnablePositionWindow"],
      [g |-> "velocity_profile",                fn |-> "SetVelocityProfile"],
      [g |-> "velocity_profile_window",         fn |-> "EnableVelocityWindow"]>>

init_regulators ==
    /\ pc = "regulators"
    /\ IF idx = Len(RegulatorGroups)
       THEN GroupStep(RegulatorGroups[idx].g, RegulatorGroups[idx].fn, 0, "query_faults", 0)
       ELSE GroupStep(RegulatorGroups[idx].g, RegulatorGroups[idx].fn, 0, "regulators",
                      idx + 1)
    /\ InitFrame /\ UNCHANGED <<cfgVars, has_init_, node_handle_>>

\* lines 542-546: the first VCS_GetNbOfDeviceError
init_query_faults ==
    /\ pc = "query_faults"
    /\ \/ /\ trace' = Append(trace, Call("GetNbOfDeviceError", 0, FALSE))
          /\ Abort
       \/ \E n \in 0..MaxFaults :
          /\ trace' = Append(trace, Call("GetNbOfDeviceError", n, TRUE))
          /\ pc' = IF n >= 1 THEN "error_codes" ELSE "clear_faults"
          /\ ret' = ret /\ idx' = (IF n >= 1 THEN 1 ELSE 0) /\ num_errors' = n
    /\ InitFrame /\ UNCHANGED <<cfgVars, has_init_, node_handle_>>

\* lines 547-553: one pass of the loop over the error codes
init_error_codes ==
    /\ pc = "error_codes"
    /\ VCS("GetDeviceErrorCode", idx,
           IF idx + 1 <= num_errors THEN "error_codes" ELSE "clear_faults",
           IF idx + 1 <= num_errors THEN idx + 1 ELSE 0)
    /\ InitFrame /\ UNCHANGED <<cfgVars, has_init_, node_handle_>>

\* lines 555-569
init_clear_faults ==
    /\ pc = "clear_faults"
    /\ LET clear_faults == params.clear_faults
       IN IF num_errors > 0
          THEN IF clear_faults THEN VCS("ClearFault", 0, "recount", 0) ELSE Reject
          ELSE Skip("recount", 0)
    /\ InitFrame /\ UNCHANGED <<cfgVars, has_init_, node_handle_>>

\* lines 571-579: the second VCS_GetNbOfDeviceError, then halt_velocity
init_recount ==
    /\ pc = "recount"
    /\ \/ /\ trace' = Append(trace, Call("GetNbOfDeviceError", 0, FALSE))
          /\ Abort
          /\ UNCHANGED halt_velocity_
       \/ \E n \in 0..MaxFaults :
          /\ trace' = Append(trace, Call("GetNbOfDeviceError", n, TRUE))
          /\ IF n > 0
             THEN Abort /\ UNCHANGED halt_velocity_
             ELSE /\ pc' = "enable" /\ ret' = ret /\ idx' = 0 /\ num_errors' = n
                  /\ halt_velocity_' = params.halt_velocity
    /\ InitFrame
    /\ UNCHANGED <<torque_constant_, nominal_current_, max_current_,
                   encoder_resolution_, max_profile_velocity_, has_init_, node_handle_>>

\* init's last block with has_init_ set before the result is tested
init_enable_unchecked ==
    /\ pc = "enable"
    /\ \E ok \in BOOLEAN :
          /\ trace' = Append(trace, Call("SetEnableState", 0, ok))
          /\ pc' = "idle" /\ idx' = 0 /\ num_errors' = 0
          /\ ret' = IF ok THEN "true" ELSE "false"
          /\ has_init_' = TRUE
    /\ InitFrame /\ UNCHANGED <<cfgVars, node_handle_>>

\* lines 581-587
init_enable ==
    /\ pc = "enable"
    /\ \E ok \in BOOLEAN :
          /\ trace' = Append(trace, Call("SetEnableState", 0, ok))
          /\ pc' = "idle" /\ idx' = 0 /\ num_errors' = 0
          /\ ret' = IF ok THEN "true" ELSE "false"
          /\ has_init_' = IF ok THEN TRUE ELSE has_init_
    /\ InitFrame /\ UNCHANGED <<cfgVars, node_handle_>>

---------------------------------------------------------------------------
(* Unit conversions of read and write *)

\* currentToTorque and torqueToCurrent of the class (current * torque_constant_,
\* torque / torque_constant_), on doubles
currentToTorque(c) == Num(TruncDiv(Val(c) * Val(torque_constant_), Milli))
torqueToCurrent(t) ==
    IF Val(torque_constant_) = 0
    THEN IF Val(t) = 0 THEN NaN ELSE Inf(Sign(Val(t)))
    ELSE Num(TruncDiv(Val(t) * Milli, Val(torque_constant_)))

\* lines 625-639: position_, velocity_, current_, effort_ from the raw values
ReadPosition(raw) ==
    IF rw_ros_units_
    THEN IF encoder_resolution_ = 0
         THEN IF raw = 0 THEN NaN ELSE Inf(Sign(raw))
         ELSE Num(TruncDiv(raw * Milli * PiNum, PiDen * 2 * encoder_resolution_))
    ELSE Num(raw * Milli)
ReadVelocity(raw) ==
    IF rw_ros_units_ THEN Num(TruncDiv(raw * Milli * PiNum, PiDen * 30))
    ELSE Num(raw * Milli)
ReadCurrent(raw) == Num(raw)
ReadEffort(raw) ==
    IF rw_ros_units_ THEN Num(TruncDiv(Val(currentToTorque(ReadCurrent(raw))), 1000))
    ELSE currentToTorque(ReadCurrent(raw))

\* what the device returns to one read(): a telemetry sample and, for each of
\* the five calls, whether it succeeds
Samples ==
    {[statusword |-> device.statusword, position |-> 2000, velocity |-> 60,
      current |-> 1500, voltage10x |-> 240]}
ReadCalls == <<"GetObject_statusword", "GetPositionIs", "GetVelocityIs", "GetCurrentIs",
               "GetObject_voltage">>
ReadOutcomes == {[c \in Range(ReadCalls) |-> b] : b \in BOOLEAN}
\* content of a local the failed call did not write
RawGarbage == {0 - 7}

\* the calls of read(), given which of them succeed
ReadTrace(oks) ==
    LET n == IF power_supply_name_ # "" THEN 5 ELSE 4
    IN [i \in 1..n |-> Call(ReadCalls[i], 0, oks[ReadCalls[i]])]

---------------------------------------------------------------------------
(* Epos::read, Epos::write, Epos::doSwitch and the host's command registers *)

Idle == pc = "idle" /\ ~crashed

\* a handler dereferences node_handle_ while it is null: the process dies
NullDeref ==
    /\ crashed' = TRUE
    /\ trace' = <<>>
    /\ stat' = NoReport
    /\ UNCHANGED <<device, ctorVars, has_init_, node_handle_, sensedVars, cmdVars,
                   operation_mode_, cfgVars, pc, num_errors, idx, ret, init_calls>>

\* read and write without their has_init_ test
NotOperational_never == FALSE
\* lines 606 and 652: if (!has_init_) return;
NotOperational == ~has_init_

\* lines 605-649
read ==
    /\ Idle
    /\ op' = [name |-> "read", start |-> <<>>]
    /\ IF NotOperational
       THEN /\ trace' = <<>>
            /\ stat' = NoReport
            /\ UNCHANGED <<device, ctorVars, has_init_, node_handle_, sensedVars, cmdVars,
                           operation_mode_, cfgVars, pc, num_errors, idx, ret,
                           init_calls, crashed>>
       ELSE IF ~node_handle_ THEN NullDeref
       ELSE \E s \in Samples, oks \in ReadOutcomes, g \in RawGarbage :
            LET position_raw == IF oks["GetPositionIs"] THEN s.position ELSE g
                velocity_raw == IF oks["GetVelocityIs"] THEN s.velocity ELSE g
                current_raw  == IF oks["GetCurrentIs"] THEN s.current ELSE g
                voltage10x   == IF oks["GetObject_voltage"] THEN s.voltage10x ELSE 0
            IN /\ trace' = ReadTrace(oks)
               /\ statusword_' = IF oks["GetObject_statusword"] THEN s.statusword
                                 ELSE statusword_
               /\ position_' = ReadPosition(position_raw)
               /\ velocity_' = ReadVelocity(velocity_raw)
               /\ current_' = ReadCurrent(current_raw)
               /\ effort_' = ReadEffort(current_raw)
               /\ power_supply_state_' =
                     IF power_supply_name_ # ""
                     THEN [voltage |-> Num(voltage10x * 100), present |-> voltage10x > 0]
                     ELSE power_supply_state_
               /\ stat' = NoReport
               /\ UNCHANGED <<device, ctorVars, has_init_, node_handle_, cmdVars,
                              operation_mode_, cfgVars, pc, num_errors, idx, ret,
                              init_calls, crashed>>

\* what an (int) cast of an infinite double may leave in cmd: the cast is
\* undefined, INT_MIN is what the conversion instruction delivers
CastGarbage == {0 - 2147483647 - 1, 7}

\* the clamp left out
ClampVelocity_none(cmd) == cmd
\* lines 666-671: the clamp to max_profile_velocity_
ClampVelocity(cmd) ==
    IF max_profile_velocity_ >= 0
    THEN IF cmd < 0 - max_profile_velocity_ THEN 0 - max_profile_velocity_
         ELSE IF cmd > max_profile_velocity_ THEN max_profile_velocity_
         ELSE cmd
    ELSE cmd
\* lines 660-665: the velocity command in device units for a finite v in
\* thousandths (v * 30 / M_PI is v * 30 * PiDen / (PiNum * Milli), the
\* fraction reduced by 10 to stay within 32 bits)
VelocityConv(v) ==
    IF rw_ros_units_ THEN TruncDiv(Val(v) * 3 * PiDen, PiNum * (Milli \div 10))
    ELSE TruncDiv(Val(v), Milli)
\* lines 660-671: converted, then clamped
VelocityCmd(v) == ClampVelocity(VelocityConv(v))
\* the values cmd may hold at line 673
VelocityCmds(v) ==
    IF IsFinite(v) THEN {VelocityCmd(v)} ELSE {ClampVelocity(g) : g \in CastGarbage}
\* lines 683-689
PositionCmd(p) ==
    IF rw_ros_units_ THEN TruncDiv(Val(p) * 2 * encoder_resolution_ * PiDen, PiNum * Milli)
    ELSE TruncDiv(Val(p), Milli)
\* lines 695-701, for a finite current
CurrentCmd(t) ==
    IF rw_ros_units_ THEN Val(torqueToCurrent(t)) ELSE TruncDiv(Val(torqueToCurrent(t)), Milli)

\* write() without its isnan tests
WriteCalls_unchecked ==
    IF operation_mode_ = PROFILE_VELOCITY_MODE
    THEN {[fn |-> "MoveWithVelocity", arg |-> cmd] : cmd \in CastGarbage}
    ELSE IF operation_mode_ = PROFILE_POSITION_MODE
    THEN {[fn |-> "MoveToPosition", arg |-> cmd] : cmd \in CastGarbage}
    ELSE IF operation_mode_ = CURRENT_MODE
    THEN {[fn |-> "SetCurrentMust", arg |-> cmd] : cmd \in CastGarbage}
    ELSE {}
\* write() with the zero test of line 673 made before the clamp
WriteCalls_zero_before_clamp ==
    IF operation_mode_ = PROFILE_VELOCITY_MODE
    THEN IF isnan(velocity_cmd_) THEN {}
         ELSE {IF cmd = 0 /\ halt_velocity_
               THEN [fn |-> "HaltVelocityMovement", arg |-> 0]
               ELSE [fn |-> "MoveWithVelocity", arg |-> ClampVelocity(cmd)] :
                  cmd \in IF IsFinite(velocity_cmd_) THEN {VelocityConv(velocity_cmd_)}
                          ELSE CastGarbage}
    ELSE IF operation_mode_ = PROFILE_POSITION_MODE
    THEN IF isnan(position_cmd_) THEN {}
         ELSE {[fn |-> "MoveToPosition", arg |-> PositionCmd(position_cmd_)]}
    ELSE IF operation_mode_ = CURRENT_MODE
    THEN IF isnan(torque_cmd_) THEN {}
         ELSE IF IsFinite(torqueToCurrent(torque_cmd_))
              THEN {[fn |-> "SetCurrentMust", arg |-> CurrentCmd(torque_cmd_)]}
              ELSE {[fn |-> "SetCurrentMust", arg |-> g] : g \in RawGarbage}
    ELSE {}
\* the device call write() issues, as a set: empty when it issues none
WriteCalls ==
    IF operation_mode_ = PROFILE_VELOCITY_MODE
    THEN IF isnan(velocity_cmd_) THEN {}
         ELSE {IF cmd = 0 /\ halt_velocity_
               THEN [fn |-> "HaltVelocityMovement", arg |-> 0]
               ELSE [fn |-> "MoveWithVelocity", arg |-> cmd] :
                  cmd \in VelocityCmds(velocity_cmd_)}
    ELSE IF operation_mode_ = PROFILE_POSITION_MODE
    THEN IF isnan(position_cmd_) THEN {}
         ELSE {[fn |-> "MoveToPosition", arg |-> PositionCmd(position_cmd_)]}
    ELSE IF operation_mode_ = CURRENT_MODE
    THEN IF isnan(torque_cmd_) THEN {}
         ELSE IF IsFinite(torqueToCurrent(torque_cmd_))
              THEN {[fn |-> "SetCurrentMust", arg |-> CurrentCmd(torque_cmd_)]}
              ELSE {[fn |-> "SetCurrentMust", arg |-> g] : g \in RawGarbage}
    ELSE {}

\* lines 651-704
write ==
    /\ Idle
    /\ op' = [name |-> "write", start |-> <<>>]
    /\ IF NotOperational \/ WriteCalls = {}
       THEN /\ trace' = <<>>
            /\ stat' = NoReport
            /\ UNCHANGED <<device, ctorVars, has_init_, node_handle_, sensedVars, cmdVars,
                           operation_mode_, cfgVars, pc, num_errors, idx, ret,
                           init_calls, crashed>>
       ELSE IF ~node_handle_ THEN NullDeref
       ELSE \E c \in WriteCalls :
            /\ trace' = <<Call(c.fn, c.arg, TRUE)>>
            /\ stat' = NoReport
            /\ UNCHANGED <<device, ctorVars, has_init_, node_handle_, sensedVars, cmdVars,
                           operation_mode_, cfgVars, pc, num_errors, idx, ret,
                           init_calls, crashed>>

StartLists == UNION {[1..n -> Controllers] : n \in 0..MaxStart}

\* a lookup that falls back to the initial mode's entry when no name matches
Matching_default(start_list) ==
    LET m == SelectSeq(start_list, LAMBDA c : c \in DOMAIN operation_mode_map_)
    IN IF Len(m) = 0 /\ Len(start_list) > 0 /\ "" \in DOMAIN operation_mode_map_
       THEN <<"">> ELSE m
\* a loop body that runs twice for each matching name
Matching_twice(start_list) ==
    LET m == SelectSeq(start_list, LAMBDA c : c \in DOMAIN operation_mode_map_)
    IN m \o m

\* the starting controllers that are keys of operation_mode_map_, in list order
Matching(start_list) == SelectSeq(start_list, LAMBDA c : c \in DOMAIN operation_mode_map_)

\* lines 589-603
doSwitch ==
    /\ Idle
    /\ \E start_list \in StartLists :
       LET m == Matching(start_list)
       IN /\ op' = [name |-> "doSwitch", start |-> start_list]
          /\ IF Len(m) > 0 /\ ~node_handle_ THEN NullDeref
             ELSE /\ trace' = [i \in 1..Len(m) |->
                                 Call("SetOperationMode", operation_mode_map_[m[i]], TRUE)]
                  /\ stat' = NoReport
                  /\ UNCHANGED <<device, ctorVars, has_init_, node_handle_, sensedVars, cmdVars,
                                 operation_mode_, cfgVars, pc, num_errors, idx, ret,
                                 init_calls, crashed>>

\* lines 57-65: the host writes a command register through its handle
HostCmds == {NaN, Num(4000)}
HostPositionCmds == {NaN, Num(0)}
HostVelocityCmds == {NaN, Num(0), Num(400), Num(1000000), Num(0 - 1000000), Inf(1)}
command ==
    /\ Idle
    /\ \/ \E v \in HostPositionCmds :
             position_cmd_' = v /\ UNCHANGED <<velocity_cmd_, torque_cmd_>>
       \/ \E v \in HostVelocityCmds :
             velocity_cmd_' = v /\ UNCHANGED <<position_cmd_, torque_cmd_>>
       \/ \E v \in HostCmds :
             torque_cmd_' = v /\ UNCHANGED <<position_cmd_, velocity_cmd_>>
    /\ op' = [name |-> "command", start |-> <<>>]
    /\ trace' = <<>>
    /\ stat' = NoReport
    /\ UNCHANGED <<device, ctorVars, has_init_, node_handle_, sensedVars, operation_mode_,
                   cfgVars, pc, num_errors, idx, ret, init_calls, crashed>>

---------------------------------------------------------------------------
(* Epos::buildMotorStatus and Epos::buildMotorOutputStatus *)

\* diagnostic_msgs::DiagnosticStatus levels
OK    == 0
WARN  == 1
ERROR == 2

\* lines 708-717
READY_TO_SWITCH_ON   == 0
SWITCHED_ON          == 1
ENABLE               == 2
FAULT                == 3
VOLTAGE_ENABLED      == 4
QUICKSTOP            == 5
WARNING              == 7
TARGET_REACHED       == 10
CURRENT_LIMIT_ACTIVE == 11
STATUSWORD(b, v) == (v \div Pow2(b)) % 2 = 1

\* DiagnosticStatusWrapper::mergeSummary: the level only rises
mergeSummary(level, lvl) == IF lvl > level THEN lvl ELSE level

\* one summary (merge FALSE) or mergeSummary (merge TRUE) call of a builder
SummaryCall(merge, lvl, msg) == [merge |-> merge, lvl |-> lvl, msg |-> msg]
When(cond, call) == IF cond THEN <<call>> ELSE <<>>

\* the level of the report after the first n summary calls
RECURSIVE SummaryLevel(_, _)
SummaryLevel(calls, n) ==
    IF n = 0 THEN OK
    ELSE IF calls[n].merge THEN mergeSummary(SummaryLevel(calls, n - 1), calls[n].lvl)
    ELSE calls[n].lvl
\* the report: after each summary call the level and the message passed, and
\* the keys added
Report(calls, keys) ==
    [summary |-> [i \in DOMAIN calls |->
                     [level |-> SummaryLevel(calls, i), msg |-> calls[i].msg]],
     keys |-> keys]

\* what the builders leave alone
StatusFrame == UNCHANGED <<device, ctorVars, has_init_, node_handle_, sensedVars, cmdVars,
                           operation_mode_, cfgVars, pc, num_errors, idx, ret,
                           init_calls, crashed>>

\* the fault bit test left out
FaultSummary_none(w) == <<>>
\* lines 740-742
FaultSummary(w) == When(STATUSWORD(FAULT, w), SummaryCall(TRUE, ERROR, "Fault"))

\* lines 722 and 810: if (has_init_)
StatusInitialized == has_init_

\* lines 723-781: the summary calls of the has_init_ branch, given the
\* answers of the fault queries
InitializedStatusCalls(nb_ok, nb, code_ok) ==
    LET enabled == /\ STATUSWORD(READY_TO_SWITCH_ON, statusword_)
                   /\ STATUSWORD(SWITCHED_ON, statusword_)
                   /\ STATUSWORD(ENABLE, statusword_)
    IN <<SummaryCall(FALSE, OK, IF enabled THEN "Enabled" ELSE "Disabled")>>
       \o When(~STATUSWORD(QUICKSTOP, statusword_) /\ enabled,
               SummaryCall(TRUE, WARN, "Quickstop"))
       \o When(STATUSWORD(WARNING, statusword_), SummaryCall(TRUE, WARN, "Warning"))
       \o FaultSummary(statusword_)
       \o (IF nb_ok
           THEN [i \in 1..nb |->
                   SummaryCall(TRUE, ERROR,
                               IF code_ok[i] THEN "EPOS Device Error"
                               ELSE "Could not read device error")]
           ELSE <<SummaryCall(TRUE, ERROR, "Could not read device errors")>>)

\* the summary calls without the test of has_init_
MotorStatusCalls_unguarded(nb_ok, nb, code_ok) == InitializedStatusCalls(nb_ok, nb, code_ok)
\* lines 722-785
MotorStatusCalls(nb_ok, nb, code_ok) ==
    IF StatusInitialized THEN InitializedStatusCalls(nb_ok, nb, code_ok)
    ELSE <<SummaryCall(FALSE, ERROR, "EPOS not initialized")>>

\* a builder that fetches the status word itself
buildMotorStatus_refresh ==
    /\ Idle
    /\ op' = [name |-> "buildMotorStatus", start |-> <<>>]
    /\ trace' = <<Call("GetObject_statusword", 0, TRUE)>>
    /\ statusword_' = device.statusword
    /\ stat' = Report(<<SummaryCall(FALSE, OK, "Enabled")>>, {"Actuator Name"})
    /\ UNCHANGED <<device, ctorVars, has_init_, node_handle_, position_, velocity_,
                   effort_, current_, power_supply_state_, cmdVars, operation_mode_,
                   cfgVars, pc, num_errors, idx, ret, init_calls, crashed>>

\* lines 719-786
buildMotorStatus ==
    /\ Idle
    /\ op' = [name |-> "buildMotorStatus", start |-> <<>>]
    /\ IF StatusInitialized /\ ~node_handle_ THEN NullDeref
       ELSE \E nb_ok \in BOOLEAN, nb \in 0..MaxFaults, code_ok \in [1..MaxFaults -> BOOLEAN] :
            /\ nb_ok \/ nb = 0
            /\ \A i \in 1..MaxFaults : i > nb => code_ok[i]
            /\ trace' = IF StatusInitialized
                        THEN <<Call("GetNbOfDeviceError", nb, nb_ok)>>
                             \o [i \in 1..nb |-> Call("GetDeviceErrorCode", i, code_ok[i])]
                        ELSE <<>>
            /\ stat' = Report(MotorStatusCalls(nb_ok, nb, code_ok),
                              {"Actuator Name"} \cup
                              IF StatusInitialized
                              THEN {"Enabled", "Fault", "Voltage Enabled", "Quickstop",
                                    "Warning"}
                              ELSE {})
            /\ StatusFrame

\* the summary call made after the two tests instead of before them
MotorOutputStatusCalls_summary_last ==
    IF StatusInitialized
    THEN When(STATUSWORD(CURRENT_LIMIT_ACTIVE, statusword_),
              SummaryCall(TRUE, WARN, "Current Limit Active"))
         \o <<SummaryCall(FALSE, OK, "EPOS operating")>>
    ELSE <<SummaryCall(FALSE, ERROR, "EPOS not initialized")>>
\* lines 810-829
MotorOutputStatusCalls ==
    IF StatusInitialized
    THEN <<SummaryCall(FALSE, OK, "EPOS operating")>>
         \o When(STATUSWORD(CURRENT_LIMIT_ACTIVE, statusword_),
                 SummaryCall(TRUE, WARN, "Current Limit Active"))
         \o When(Val(nominal_current_) > 0 /\ Abs(Val(current_)) > Val(nominal_current_),
                 SummaryCall(TRUE, WARN, "Nominal Current Exceeded"))
    ELSE <<SummaryCall(FALSE, ERROR, "EPOS not initialized")>>

\* lines 788-830
buildMotorOutputStatus ==
    /\ Idle
    /\ op' = [name |-> "buildMotorOutputStatus", start |-> <<>>]
    /\ trace' = <<>>
    /\ stat' = Report(MotorOutputStatusCalls,
                      (IF operation_mode_ = PROFILE_POSITION_MODE THEN {"Commanded Position"}
                       ELSE IF operation_mode_ = PROFILE_VELOCITY_MODE
                       THEN {"Commanded Velocity"}
                       ELSE IF operation_mode_ = CURRENT_MODE
                       THEN {"Commanded Torque", "Commanded Current"}
                       ELSE {})
                      \cup {"Operation Mode", "Nominal Current", "Max Current"}
                      \cup IF StatusInitialized
                           THEN {"Position", "Velocity", "Torque", "Current",
                                 "Target Reached", "Current Limit Active"}
                           ELSE {})
    /\ StatusFrame

---------------------------------------------------------------------------
\* doSwitch, the host's command writes and the status builders change nothing
\* that init and read look at, so the bring-up is explored over every
\* configuration without them; the switches, the command registers and the
\* status builders are each explored with the bring-up over the
\* configurations that matter to them
NextBringUp ==
    \/ init_begin \/ init_protocol \/ init_disable \/ init_initial_mode
    \/ init_fault_reaction \/ init_set_fault_reaction \/ init_motor_type
    \/ init_dc_motor \/ init_ec_motor \/ init_max_speed \/ init_set_max_speed
    \/ init_sensor_type \/ init_incremental_encoder \/ init_hall_sensor
    \/ init_ssi_absolute_encoder \/ init_safety \/ init_regulators
    \/ init_query_faults \/ init_error_codes \/ init_clear_faults \/ init_recount
    \/ init_enable
    \/ read \/ write

Next == NextBringUp \/ doSwitch
NextCyclic == NextBringUp \/ command
NextStatus == NextBringUp \/ buildMotorStatus \/ buildMotorOutputStatus

SpecBringUp == InitConfig /\ [][NextBringUp]_vars
Spec        == Init /\ [][Next]_vars
SpecCyclic  == InitCyclic /\ [][NextCyclic]_vars
SpecStatus  == InitStatus /\ [][NextStatus]_vars

---------------------------------------------------------------------------
(* Properties *)

InInit    == op.name = "init"
Fns       == {trace[i].fn : i \in DOMAIN trace}
Count(fn) == Cardinality({i \in DOMAIN trace : trace[i].fn = fn})
LastCall  == trace[Len(trace)]

ConfigCalls ==
    {"SetObject", "SetMotorType", "SetDcMotorParameter", "SetEcMotorParameter",
     "SetSensorType", "SetIncEncoderParameter", "SetHallSensorParameter",
     "SetSsiAbsEncoderParameter", "SetMaxFollowingError", "SetMaxProfileVelocity",
     "SetMaxAcceleration"} \cup {RegulatorGroups[i].fn : i \in DOMAIN RegulatorGroups}
FaultCalls == {"GetNbOfDeviceError", "GetDeviceErrorCode", "ClearFault"}

\* the place of a device call in the bring-up order
Phase(fn) ==
    IF fn = "CreateNodeHandle" THEN 1
    ELSE IF fn = "SetProtocolStackSettings" THEN 2
    ELSE IF fn = "SetDisableState" THEN 3
    ELSE IF fn = "SetOperationMode" THEN 4
    ELSE IF fn \in ConfigCalls THEN 5
    ELSE IF fn \in FaultCalls THEN 6
    ELSE IF fn = "SetEnableState" THEN 7
    ELSE 0

\* the fault count the first enumeration of the bring-up reported (-1: none yet)
FirstFaultCount ==
    LET I == {i \in DOMAIN trace : trace[i].fn = "GetNbOfDeviceError"}
    IN IF I = {} THEN 0 - 1
       ELSE LET i == CHOOSE k \in I : \A j \in I : k <= j
            IN IF trace[i].ok THEN trace[i].arg ELSE 0 - 1
\* the fault count the enumeration after ClearFault reported (-1: none yet)
RecountAfterClear ==
    LET I == {i \in DOMAIN trace : /\ trace[i].fn = "GetNbOfDeviceError" /\ trace[i].ok
                                   /\ \E j \in 1..(i-1) : trace[j].fn = "ClearFault"}
    IN IF I = {} THEN 0 - 1 ELSE trace[CHOOSE k \in I : TRUE].arg

\* C1, the order of the device calls of a bring-up: connect, protocol timing,
\* disable, then at most one operation-mode set, then the configuration
\* pushes, then the fault enumeration, then enable; enable is the last call
\* and comes only after every earlier call succeeded
C1_Order ==
    InInit =>
        /\ \A i \in DOMAIN trace : i <= 3 => Phase(trace[i].fn) = i
        /\ \A i \in DOMAIN trace : i > 3 => Phase(trace[i].fn) > 3
        /\ \A i, j \in DOMAIN trace : i < j => Phase(trace[i].fn) <= Phase(trace[j].fn)
        /\ Count("SetOperationMode") <= 1
        /\ \A i \in DOMAIN trace :
              trace[i].fn = "SetEnableState" =>
                 /\ i = Len(trace)
                 /\ \A j \in 1..(i-1) : trace[j].ok
                 /\ \E j \in 1..(i-1) : Phase(trace[j].fn) = 5
                 /\ \E j \in 1..(i-1) : trace[j].fn = "GetNbOfDeviceError"
\* C1: every bring-up issues its device calls in the order of C1_Order, and
\* has_init_ becomes true only in the step whose enable-drive call succeeded
C1_BringUpOrder ==
    /\ []C1_Order
    /\ [][(~has_init_ /\ has_init_') =>
             (InInit' /\ LastCall'.fn = "SetEnableState" /\ LastCall'.ok)]_vars
C1_Witness ==
    /\ InInit /\ ret = "true" /\ has_init_
    /\ "SetOperationMode" \in Fns /\ "ClearFault" \in Fns /\ "SetEnableState" \in Fns

\* C2: in the first bring-up of a driver, a failed device call is the last
\* call of the bring-up, init has returned false and has_init_ is false
C2_FailureAborts ==
    (InInit /\ init_calls = 1) =>
        \A i \in DOMAIN trace :
            ~trace[i].ok =>
                /\ i = Len(trace)
                /\ pc = "idle" /\ ret = "false" /\ ~has_init_
C2_Witness ==
    /\ InInit /\ init_calls = 1 /\ Len(trace) > 8
    /\ LastCall.fn = "ClearFault" /\ ~LastCall.ok /\ ret = "false"

\* C3 as claimed: each raw set-object write is made once and bring-up then
\* moves on to the next step
C3_WrittenOnce ==
    InInit =>
        /\ SetObjectCount(trace, 24670) <= 1
        /\ SetObjectCount(trace, 24704) <= 1
        /\ (Len(trace) > 0 /\ LastCall.fn = "SetObject" /\ LastCall.ok)
              => pc \notin {"set_fault_reaction", "set_max_speed"}

\* C4 as claimed: when the first enumeration reports faults and clear_faults
\* is false, the bring-up issues neither ClearFault nor SetEnableState, returns
\* false and the driver is not operational
C4_FaultsAbort ==
    (InInit /\ FirstFaultCount > 0 /\ ~params.clear_faults) =>
        /\ "ClearFault" \notin Fns /\ "SetEnableState" \notin Fns
        /\ pc \in {"error_codes", "clear_faults", "idle"}
        /\ pc = "idle" => (ret = "false" /\ ~has_init_)

\* C5 as claimed: with faults and clear_faults true the bring-up issues one
\* ClearFault and re-enumerates; it enables the drive only when the
\* re-enumeration reports zero faults, and it aborts non-operational when the
\* clear fails or a fault remains
C5_ClearOnce ==
    (InInit /\ FirstFaultCount > 0 /\ params.clear_faults) =>
        /\ Count("ClearFault") <= 1
        /\ pc \in {"recount", "enable"} => Count("ClearFault") = 1
        /\ "SetEnableState" \in Fns => RecountAfterClear = 0
        /\ (pc = "idle" /\ ret = "true") => (has_init_ /\ RecountAfterClear = 0)
        /\ ((\E i \in DOMAIN trace : trace[i].fn = "ClearFault" /\ ~trace[i].ok)
               \/ RecountAfterClear > 0)
              => (pc = "idle" /\ ret = "false" /\ ~has_init_)

\* C6: a read or write of a driver whose has_init_ is false issues no device
\* call and leaves the sensed values as they are
C6_NoOpWhenNotOperational ==
    [][(op'.name \in {"read", "write"} /\ ~has_init_) =>
          (trace' = <<>> /\ UNCHANGED <<sensedVars, has_init_, crashed>>)]_vars
C6_Witness ==
    /\ op.name = "read" /\ ~has_init_ /\ node_handle_ /\ ret = "false" /\ trace = <<>>

MotionCalls(mode) ==
    IF mode = PROFILE_POSITION_MODE THEN {"MoveToPosition"}
    ELSE IF mode = PROFILE_VELOCITY_MODE THEN {"MoveWithVelocity", "HaltVelocityMovement"}
    ELSE {"SetCurrentMust"}
CommandOf(mode) ==
    IF mode = PROFILE_POSITION_MODE THEN position_cmd_
    ELSE IF mode = PROFILE_VELOCITY_MODE THEN velocity_cmd_
    ELSE torque_cmd_

\* C7 as claimed: the write that follows a doSwitch which set a mode issues
\* the motion command of that mode when the mode's command is not NaN
C7_SwitchSelectsMode ==
    [][(op.name = "doSwitch" /\ Len(trace) > 0 /\ op'.name = "write" /\ has_init_
          /\ ~isnan(CommandOf(LastCall.arg)))
        => (Len(trace') = 1 /\ trace'[1].fn \in MotionCalls(LastCall.arg))]_vars

\* the start-list entries that are keys of the mode map
MatchIndexes(start_list) ==
    {i \in DOMAIN start_list : start_list[i] \in DOMAIN operation_mode_map_}

\* C8 as claimed: a switch event issues at most one operation-mode set
C8_AtMostOne == op.name = "doSwitch" => Count("SetOperationMode") <= 1
\* C8 amended: a switch event issues at most one operation-mode set per
\* start-list entry that is a key of the mode map, and exactly one per such
\* entry while a device handle is held
C8_OnePerMatch ==
    op.name = "doSwitch" =>
        /\ Len(trace) <= Cardinality(MatchIndexes(op.start))
        /\ \A i \in DOMAIN trace : trace[i].fn = "SetOperationMode"
        /\ node_handle_ => Len(trace) = Cardinality(MatchIndexes(op.start))
C8_Witness ==
    /\ op.name = "doSwitch" /\ Len(trace) = 2 /\ has_init_
    /\ trace[1].arg # trace[2].arg

\* C9: a switch event none of whose starting names is a key of the mode map
\* issues no device call and changes nothing of the driver
C9_NoMatchNoEffect ==
    [][(op'.name = "doSwitch" /\ MatchIndexes(op'.start) = {}) =>
          /\ trace' = <<>>
          /\ UNCHANGED <<ctorVars, has_init_, node_handle_, sensedVars, cmdVars,
                         operation_mode_, cfgVars, crashed>>]_vars
C9_Witness ==
    /\ op.name = "doSwitch" /\ op.start = <<"other_controller", "other_controller">>
    /\ has_init_ /\ "" \in DOMAIN operation_mode_map_ /\ trace = <<>>

GroupCall ==
    [g \in GroupNames |->
        IF g = "dc_motor" THEN "SetDcMotorParameter"
        ELSE IF g = "ec_motor" THEN "SetEcMotorParameter"
        ELSE IF g = "incremental_encoder" THEN "SetIncEncoderParameter"
        ELSE IF g = "hall_sensor" THEN "SetHallSensorParameter"
        ELSE IF g = "ssi_absolute_encoder" THEN "SetSsiAbsEncoderParameter"
        ELSE (CHOOSE r \in Range(RegulatorGroups) : r.g = g).fn]
Partial(g) == params.groups[g] # {} /\ params.groups[g] # AllKeys(g)

\* C10: all_or_none returns true with found_all for a complete group, true
\* without found_all for an absent group and false for a partly present one;
\* a bring-up never issues the call of a partly present group, never enables
\* the drive and returns false
C10_AllOrNone ==
    \A g \in GroupNames :
        LET r == all_or_none(ParameterSetLoader(params, g))
        IN /\ params.groups[g] = AllKeys(g) => (r.ret /\ r.found_all)
           /\ params.groups[g] = {} => (r.ret /\ ~r.found_all)
           /\ Partial(g) => ~r.ret
           /\ (Partial(g) /\ InInit) =>
                 /\ GroupCall[g] \notin Fns
                 /\ "SetEnableState" \notin Fns
                 /\ pc = "idle" => ret = "false"
C10_Witness ==
    /\ InInit /\ pc = "idle" /\ ret = "false"
    /\ Partial("velocity_profile_window")
    /\ Len(trace) > 3 /\ LastCall.ok

\* the configuration holds one of the validation errors: a missing required
\* key or unknown mode string (valid_ false), an unknown fault reaction, a
\* missing motor or sensor type, a partly present group
ValidationError ==
    \/ ~CtorValid(params)
    \/ \E str \in params.fault_reaction_option : ~IsFaultReaction(str)
    \/ ~params.motor_type \/ ~params.sensor_type
    \/ \E g \in GroupNames : Partial(g)

\* C11 as claimed: a bring-up that ends with a validation failure (it returns
\* false although no device call failed) has issued no device call
C11_ValidationBeforeIO ==
    (InInit /\ pc = "idle" /\ ret = "false" /\ ValidationError
        /\ \A i \in DOMAIN trace : trace[i].ok)
      => trace = <<>>

\* a bring-up of this driver has failed and has_init_ is false
BringUpFailed ==
    /\ ~has_init_
    /\ \/ init_calls = 1 /\ pc = "idle"
       \/ init_calls >= 2

\* C12 as claimed: once a bring-up has failed, has_init_ stays false and no
\* SetEnableState is issued, whatever handler runs next
C12_FailedForGood ==
    [][BringUpFailed => (~has_init_' /\ "SetEnableState" \notin {trace'[i].fn : i \in DOMAIN trace'})]_vars

\* C13 as claimed: init on a driver whose has_init_ is true issues no device
\* call and changes nothing of the driver
C13_OneShot ==
    [][(has_init_ /\ op'.name = "init") =>
         (op.name = "init" /\ pc # "idle")
         \/ /\ trace' = <<>>
            /\ UNCHANGED <<ctorVars, has_init_, node_handle_, sensedVars, cmdVars,
                           operation_mode_, cfgVars>>]_vars

\* C14: in PROFILE_VELOCITY_MODE every value write() passes to
\* MoveWithVelocity lies within -max_profile_velocity_ .. max_profile_velocity_
\* when that limit is not negative, and is the converted command itself when
\* the limit is the sentinel -1
C14_VelocityClamped ==
    [][(op'.name = "write" /\ operation_mode_ = PROFILE_VELOCITY_MODE) =>
         \A i \in DOMAIN trace' :
            trace'[i].fn = "MoveWithVelocity" =>
               IF max_profile_velocity_ >= 0
               THEN /\ trace'[i].arg >= 0 - max_profile_velocity_
                    /\ trace'[i].arg <= max_profile_velocity_
               ELSE /\ max_profile_velocity_ = 0 - 1
                    /\ IsFinite(velocity_cmd_) => trace'[i].arg = VelocityConv(velocity_cmd_)]_vars
C14_Witness ==
    /\ op.name = "write" /\ has_init_ /\ operation_mode_ = PROFILE_VELOCITY_MODE
    /\ rw_ros_units_ /\ max_profile_velocity_ = 10 /\ velocity_cmd_ = Num(1000000)
    /\ trace = <<Call("MoveWithVelocity", 10, TRUE)>>

\* C15: in each of the three modes a write() whose command register of that
\* mode is NaN issues no device call, and one whose register is not NaN issues
\* the one call of the mode whatever the other two registers hold
C15_NaNIssuesNothing ==
    [][(op'.name = "write" /\ operation_mode_ \in OperationModes) =>
         IF CommandOf(operation_mode_) = NaN
         THEN trace' = <<>> /\ ~crashed'
         ELSE (has_init_ /\ node_handle_) =>
                 /\ Len(trace') = 1
                 /\ trace'[1].fn \in MotionCalls(operation_mode_)]_vars
C15_Witness ==
    /\ op.name = "write" /\ has_init_ /\ operation_mode_ = PROFILE_VELOCITY_MODE
    /\ velocity_cmd_ = NaN /\ position_cmd_ # NaN /\ torque_cmd_ # NaN
    /\ trace = <<>>

\* C16 as claimed: a failed call of read() leaves the value it feeds as it was
\* before the read, and the driver stays operational
C16_StaleRetained ==
    [][(op'.name = "read" /\ has_init_ /\ ~crashed') =>
         /\ has_init_'
         /\ \A i \in DOMAIN trace' :
               ~trace'[i].ok =>
                  /\ trace'[i].fn = "GetObject_statusword" => statusword_' = statusword_
                  /\ trace'[i].fn = "GetPositionIs" => position_' = position_
                  /\ trace'[i].fn = "GetVelocityIs" => velocity_' = velocity_
                  /\ trace'[i].fn = "GetCurrentIs" =>
                        (current_' = current_ /\ effort_' = effort_)
                  /\ trace'[i].fn = "GetObject_voltage" =>
                        power_supply_state_' = power_supply_state_]_vars

StatusBuilders == {"buildMotorStatus", "buildMotorOutputStatus"}
\* the severity of the finished report
FinalLevel == stat.summary[Len(stat.summary)].level
\* the fault enumeration of the report succeeded and found no device error
NoDeviceError == trace = <<Call("GetNbOfDeviceError", 0, TRUE)>>

\* C17 as claimed: the motor status of an operational driver is ERROR when
\* the fault bit is set, and WARN when the warning bit is set and the fault
\* bit is not
C17_FaultAndWarning ==
    (op.name = "buildMotorStatus" /\ has_init_ /\ ~crashed) =>
        /\ STATUSWORD(FAULT, statusword_) => FinalLevel = ERROR
        /\ (STATUSWORD(WARNING, statusword_) /\ ~STATUSWORD(FAULT, statusword_))
              => FinalLevel = WARN
\* C17 amended: with a device handle held, the motor status of an operational
\* driver is ERROR when the fault bit is set; with the warning bit set and the
\* fault bit not, it is WARN when the fault enumeration succeeds and finds no
\* device error and ERROR otherwise; without a handle the builder dies on the
\* null handle
C17_FaultOrDeviceError ==
    (op.name = "buildMotorStatus" /\ has_init_) =>
        IF node_handle_
        THEN /\ ~crashed
             /\ STATUSWORD(FAULT, statusword_) => FinalLevel = ERROR
             /\ (STATUSWORD(WARNING, statusword_) /\ ~STATUSWORD(FAULT, statusword_))
                   => FinalLevel = (IF NoDeviceError THEN WARN ELSE ERROR)
        ELSE crashed /\ stat = NoReport
C17_Witness ==
    /\ op.name = "buildMotorStatus" /\ has_init_ /\ ~crashed
    /\ STATUSWORD(WARNING, statusword_) /\ STATUSWORD(FAULT, statusword_)
    /\ NoDeviceError /\ FinalLevel = ERROR

\* C18: the motor status of a driver whose has_init_ is false is the one
\* summary ERROR "EPOS not initialized", adds no status word bit and issues
\* no device call
C18_NotInitialized ==
    (op.name = "buildMotorStatus" /\ ~has_init_) =>
        /\ stat.summary = <<[level |-> ERROR, msg |-> "EPOS not initialized"]>>
        /\ stat.keys = {"Actuator Name"}
        /\ trace = <<>>
        /\ ~crashed
C18_Witness ==
    /\ op.name = "buildMotorStatus" /\ ~has_init_ /\ node_handle_
    /\ init_calls = 1 /\ ret = "false" /\ FinalLevel = ERROR

\* C19: within one report of either builder the severity never goes down
\* from one summary call to the next
C19_NeverDowngraded ==
    op.name \in StatusBuilders =>
        \A i, j \in DOMAIN stat.summary :
            i < j => stat.summary[i].level <= stat.summary[j].level
C19_Witness ==
    /\ op.name = "buildMotorStatus" /\ ~crashed /\ Len(stat.summary) >= 4
    /\ stat.summary[1].level = OK /\ stat.summary[2].level = WARN
    /\ FinalLevel = ERROR

\* C20: a status builder changes none of the sensed values, command registers,
\* operation_mode_ and has_init_, and issues no device call but the fault
\* count and fault code queries
C20_BuildersReadOnly ==
    [][op'.name \in StatusBuilders =>
         /\ UNCHANGED <<sensedVars, cmdVars, operation_mode_, has_init_>>
         /\ \A i \in DOMAIN trace' :
               trace'[i].fn \in {"GetNbOfDeviceError", "GetDeviceErrorCode"}]_vars
C20_Witness ==
    /\ op.name = "buildMotorStatus" /\ has_init_ /\ ~crashed
    /\ Len(trace) = 3 /\ statusword_ = 671 /\ position_ # Num(0)


\* the three sensor parameter sets and the device calls that push them
SensorGroups == {"incremental_encoder", "hall_sensor", "ssi_absolute_encoder"}
SensorPushes ==
    {"SetIncEncoderParameter", "SetHallSensorParameter", "SetSsiAbsEncoderParameter"}
\* the sensor parameter sets the configuration holds completely
ConfiguredSensors == {g \in SensorGroups : params.groups[g] = AllKeys(g)}

\* C21 as claimed: whenever the driver is operational between two handler
\* calls encoder_resolution_ is non-zero, and a bring-up that has derived no
\* resolution (it is 0 after the sensor blocks) never issues SetEnableState
C21_ResolutionNonZero ==
    /\ (has_init_ /\ pc = "idle") => encoder_resolution_ # 0
    /\ (InInit /\ "SetSensorType" \in Fns /\ encoder_resolution_ = 0) =>
           "SetEnableState" \notin Fns

\* C22 as claimed: a bring-up whose configuration holds more than one sensor
\* parameter set pushes at most one of them and never issues SetEnableState
C22_OneSensorSet ==
    (InInit /\ Cardinality(ConfiguredSensors) > 1) =>
        /\ Cardinality(Fns \cap SensorPushes) <= 1
        /\ "SetEnableState" \notin Fns

\* C23 as claimed: an operational driver holds a torque constant greater
\* than zero, and holds 1.0 when none was configured
C23_TorqueConstantPositive ==
    has_init_ =>
        /\ IsFinite(torque_constant_) /\ Val(torque_constant_) > 0
        /\ params.torque_constant = {} => torque_constant_ = Num(Milli)

\* C24 as claimed: a recognised fault-reaction string is written to object
\* 0x605E as -1, 0, 1 or 2 and after the successful write the bring-up goes on
\* with the motor configuration; an unrecognised string aborts the bring-up
\* without a write; an absent option writes nothing and the bring-up goes on
C24_FaultReactionWritten ==
    [][LET opt == params.fault_reaction_option
           value(str) == CASE str = "signal_only" -> 0 - 1
                           [] str = "disable_drive" -> 0
                           [] str = "slow_down_ramp" -> 1
                           [] str = "slow_down_quickstop" -> 2
       IN /\ (pc = "fault_reaction" /\ opt = {}) =>
                 (pc' = "motor_type" /\ trace' = trace)
          /\ (pc = "fault_reaction" /\ opt # {}) =>
                 \A str \in opt :
                    IF str \in {"signal_only", "disable_drive", "slow_down_ramp",
                                "slow_down_quickstop"}
                    THEN pc' = "set_fault_reaction" /\ trace' = trace
                    ELSE pc' = "idle" /\ ret' = "false" /\ trace' = trace
          /\ pc = "set_fault_reaction" =>
                 \A str \in opt :
                    /\ Len(trace') = Len(trace) + 1
                    /\ trace'[Len(trace')].fn = "SetObject"
                    /\ trace'[Len(trace')].arg = <<24670, value(str)>>
                    /\ IF trace'[Len(trace')].ok THEN pc' = "motor_type"
                       ELSE pc' = "idle" /\ ret' = "false"]_vars


\* C25: in PROFILE_VELOCITY_MODE a write() of an operational driver with a
\* velocity command that is not NaN issues exactly one device call:
\* HaltVelocityMovement when the converted and clamped command is 0 and
\* halt_velocity_ is set, otherwise MoveWithVelocity with the clamped value
\* (0 included when halt_velocity_ is not set); the zero test follows the
\* clamp, so a limit of 0 with halt_velocity_ set turns every command into a
\* halt
C25_HaltOrMove ==
    [][(/\ op'.name = "write" /\ has_init_ /\ node_handle_
        /\ operation_mode_ = PROFILE_VELOCITY_MODE /\ velocity_cmd_ # NaN) =>
         /\ Len(trace') = 1
         /\ trace'[1].fn \in {"HaltVelocityMovement", "MoveWithVelocity"}
         /\ IsFinite(velocity_cmd_) =>
               LET conv == VelocityConv(velocity_cmd_)
                   M    == max_profile_velocity_
                   cmd  == IF M >= 0 /\ conv < 0 - M THEN 0 - M
                           ELSE IF M >= 0 /\ conv > M THEN M
                           ELSE conv
               IN IF cmd = 0 /\ halt_velocity_
                  THEN trace'[1].fn = "HaltVelocityMovement"
                  ELSE trace'[1].fn = "MoveWithVelocity" /\ trace'[1].arg = cmd
         /\ (max_profile_velocity_ = 0 /\ halt_velocity_) =>
               trace'[1].fn = "HaltVelocityMovement"
         /\ trace'[1].fn = "HaltVelocityMovement" => halt_velocity_
         /\ (trace'[1].fn = "MoveWithVelocity" /\ halt_velocity_) =>
               trace'[1].arg # 0]_vars
\* a non-zero command halted by a limit of 0
C25_Witness ==
    /\ op.name = "write" /\ has_init_ /\ node_handle_
    /\ operation_mode_ = PROFILE_VELOCITY_MODE
    /\ max_profile_velocity_ = 0 /\ halt_velocity_ /\ velocity_cmd_ = Num(1000000)
    /\ trace = <<Call("HaltVelocityMovement", 0, TRUE)>>


\* C26 as claimed: no handler dereferences a handle that was not acquired; a
\* doSwitch with a starting controller of the mode map, called while no
\* handle is held, issues no SetOperationMode and does not dereference
C26_NoHandleNoCall ==
    [][/\ ~crashed'
       /\ (op'.name = "doSwitch" /\ ~node_handle_) => trace' = <<>>]_vars

\* C27 as claimed: between two handler calls has_init_ implies that a handle
\* is held and that the most recent init returned true after SetEnableState
C27_OperationalMeansEnabled ==
    (has_init_ /\ pc = "idle") => (node_handle_ /\ ret = "true")

===========================================================================
